---- MODULE Spec2Model ----
(***************************************************************************)
(* Model of quantus/metrics/base_batched.py: the batched evaluation        *)
(* engine of BatchedMetric and BatchedPerturbationMetric.                  *)
(*                                                                         *)
(* One metric instance is modelled.  A call of the instance (__call__) is  *)
(* split into the steps the interpreter takes: preprocessing, creation of  *)
(* the batch generator and of the fresh result list, one generator         *)
(* advance per loop iteration, one evaluate_batch per yielded batch,       *)
(* postprocessing and the append to all_results.                           *)
(*                                                                         *)
(* Python lists are objects: last_results and the entries of all_results   *)
(* are references into `heap`, so that aliasing between the two is part of *)
(* the model.                                                              *)
(*                                                                         *)
(* A dataset value is a record [kind, val]: kind is "seq" (a Sequence or   *)
(* an ndarray), "str" (a character string, val its character codes) or     *)
(* "scalar" (anything else; val is a one-element tuple carrying it, of     *)
(* which the code never takes the length).                                 *)
(***************************************************************************)
EXTENDS Integers, Sequences, FiniteSets, TLC

\* ---------------------------------------------------------------- bounds
MaxN == 3          \* largest instance count len(x_batch)
MaxBatch == 2      \* largest batch_size a caller passes
MaxCalls == 2      \* number of calls made on the metric instance
MaxKwargs == 2     \* largest number of extra keyword arguments given to the constructor

\* ------------------------------------------------------ program constants
DefaultBatchSize == 64     \* default of the batch_size parameter of __call__

\* keys of the consolidated dataset, in the mapping's iteration order
KeyOrder == <<"model", "x_batch", "y_batch", "s_batch">>
Keys == {KeyOrder[i] : i \in 1..Len(KeyOrder)}

Classes == {"BatchedMetric", "BatchedPerturbationMetric"}
\* behaviours of the concrete evaluate_batch override
Evaluators == {"per_instance", "per_batch"}

VARIABLES
    cls,            \* class of the metric instance
    evaluator,      \* which evaluate_batch override the instance has
    pc,             \* position inside __call__
    req_batch_size, \* batch_size the caller passed
    batch_size,     \* batch_size BatchedMetric.__call__ received
    data,           \* consolidated dataset returned by general_preprocess
    gen,            \* frame of the generate_batches generator
    data_batch,     \* the batch last yielded by the generator
    heap,           \* list objects: reference -> content
    last_results,   \* self.last_results: a reference
    all_results,    \* self.all_results: a list of references
    error,          \* the exception that left __call__
    returned,       \* reference returned by __call__ (-1: nothing returned)
    calls,          \* number of calls started
    ctor_kwargs,    \* names of the **kwargs BatchedMetric.__init__ received
    general_kwargs, \* names of the **kwargs handed on to the superclass constructor
    custom_evaluate_kwargs, \* self.custom_evaluate_kwargs: name -> value
    \* history (observation) variables
    ranges,         \* <<batch_start, batch_end>> of every batch yielded in this call
    batches,        \* every batch yielded in this call
    outputs,        \* every evaluate_batch return value of this call
    eval_log,       \* batch index of every evaluate_batch invocation of this call
    hist_at_call,   \* contents of all_results when this call started
    returns,        \* content returned by every successful call, in call order
    lr_at_call,     \* self.last_results (the reference) when this call started
    events,         \* the hooks run and the batches yielded in this call, in order
    post_arg,       \* the mapping custom_postprocess received in this call
    kwargs_log      \* the extra keyword arguments of every evaluate_batch invocation

vars == <<cls, evaluator, pc, req_batch_size, batch_size, data, gen, data_batch,
          heap, last_results, all_results, error, returned, calls,
          ranges, batches, outputs, eval_log, hist_at_call, returns,
          ctor_kwargs, general_kwargs, custom_evaluate_kwargs,
          lr_at_call, events, post_arg, kwargs_log>>

\* ------------------------------------------------------------ pure helpers
Min(a, b) == IF a <= b THEN a ELSE b
Max(a, b) == IF a >= b THEN a ELSE b

RECURSIVE Concat(_)
Concat(ss) == IF ss = <<>> THEN <<>> ELSE Head(ss) \o Concat(Tail(ss))

\* len(value) of a sequence-like value or a string
PyLen(value) == Len(value.val)

\* value[start:end] for 0 <= start, 0 <= end: indices are clipped to the length
PySlice(value, start, end) ==
    [kind |-> value.kind,
     val |-> [i \in 1..Max(Min(end, PyLen(value)) - start, 0) |-> value.val[start + i]]]

\* math.ceil(num / den) for den # 0: the quotient is rounded towards +infinity.
\* The float quotient of two small integers is never closer than 1/|den| to an
\* integer it does not equal, so rounding of the float cannot change the ceiling.
MathCeilDiv(num, den) ==
    LET n == IF den < 0 THEN -num ELSE num
        d == IF den < 0 THEN -den ELSE den
    IN  -((-n) \div d)

FloorDiv(n_instances, b) == IF b > 0 THEN n_instances \div b ELSE MathCeilDiv(n_instances, b)

get_number_of_batches(n_instances, b) == MathCeilDiv(n_instances, b)

BatchStart(b, batch_idx) == b * batch_idx

BatchEndNoMin(b, batch_idx, n_instances) == b * (batch_idx + 1)

BatchEnd(b, batch_idx, n_instances) == Min(b * (batch_idx + 1), n_instances)

\* ------------------------------------------------------------- exceptions
NoError == [type |-> "none", key |-> "", expected |-> 0, is |-> 0]
Raise(t) == [type |-> t, key |-> "", expected |-> 0, is |-> 0]
\* ValueError(f"'{key}' has incorrect length (expected: {n_instances}, is: {len(value)})")
LengthError(key, n_instances, length) ==
    [type |-> "ValueError", key |-> key, expected |-> n_instances, is |-> length]

\* ------------------------------------------------- argument partitioning
\* isinstance(value, (Sequence, np.ndarray)): a Python str is a Sequence too
IsSequence(value) == value.kind \in {"seq", "str"}
\* isinstance(value, str)
IsStr(value) == value.kind = "str"

\* the three branches of the loop body of generate_batches
ClassifyStrAsSeq(value, n_instances) ==
    IF ~IsSequence(value) THEN "single"
    ELSE IF PyLen(value) # n_instances THEN "error"
    ELSE "batched"

ClassifyNoLengthCheck(value, n_instances) ==
    IF ~IsSequence(value) \/ IsStr(value) THEN "single" ELSE "batched"

ClassifyWrongLengthSingle(value, n_instances) ==
    IF ~IsSequence(value) \/ IsStr(value) THEN "single"
    ELSE IF PyLen(value) # n_instances THEN "single"
    ELSE "batched"

Classify(value, n_instances) ==
    IF ~IsSequence(value) \/ IsStr(value) THEN "single"
    ELSE IF PyLen(value) # n_instances THEN "error"
    ELSE "batched"

\* the loop over data.items(): stops at the first entry that raises
RECURSIVE PartitionFrom(_, _, _, _, _)
PartitionFrom(d, i, n_instances, single, batched) ==
    IF i > Len(KeyOrder)
    THEN [error |-> NoError, single |-> single, batched |-> batched]
    ELSE LET key == KeyOrder[i]
             c == Classify(d[key], n_instances)
         IN  IF c = "single"
             THEN PartitionFrom(d, i + 1, n_instances, single \cup {key}, batched)
             ELSE IF c = "error"
             THEN [error |-> LengthError(key, n_instances, PyLen(d[key])),
                   single |-> single, batched |-> batched]
             ELSE PartitionFrom(d, i + 1, n_instances, single, batched \cup {key})

Partition(d, n_instances) == PartitionFrom(d, 1, n_instances, {}, {})

\* the batch of one loop iteration: {**batch, **single_value_kwargs}
MakeBatchShortSlice(d, single, batched, batch_start, batch_end) ==
    [key \in batched \cup single |->
        IF key \in single THEN d[key] ELSE PySlice(d[key], batch_start, batch_end - 1)]

MakeBatch(d, single, batched, batch_start, batch_end) ==
    [key \in batched \cup single |->
        IF key \in single THEN d[key] ELSE PySlice(d[key], batch_start, batch_end)]

\* --------------------------------------------------------------- datasets
XValue(n) == [kind |-> "seq", val |-> [i \in 1..n |-> i]]
ModelValue == [kind |-> "scalar", val |-> <<0>>]
\* y_batch: one label per instance, a sequence of another length, the string
\* "ab", or a number
YValues(n) ==
    { [kind |-> "seq", val |-> [i \in 1..n |-> 10 + i]],
      [kind |-> "seq", val |-> [i \in 1..(n + 1) |-> 20 + i]],
      [kind |-> "str", val |-> <<97, 98>>],
      [kind |-> "scalar", val |-> <<5>>] }
\* s_batch: None, or a sequence of two masks whatever the instance count
SValues ==
    { [kind |-> "scalar", val |-> <<0>>],
      [kind |-> "seq", val |-> <<31, 32>>] }

MakeDataset(n, y, s) ==
    [key \in Keys |->
        CASE key = "model" -> ModelValue
          [] key = "x_batch" -> XValue(n)
          [] key = "y_batch" -> y
          [] key = "s_batch" -> s]

Datasets ==
    UNION { { MakeDataset(n, y, s) : y \in YValues(n), s \in SValues } :
            n \in 0..MaxN }

\* --------------------------------------------------------------- evaluator
Score(v) == 2 * v + 1
\* what the evaluate_batch override returns on a batch
EvaluateBatchResult(ev, batch) ==
    LET x == batch["x_batch"].val
    IN  IF ev = "per_instance" THEN [i \in 1..Len(x) |-> Score(x[i])]
        ELSE <<Len(x)>>

\* result list growth: self.last_results.extend(result)
ListAssign(old, result) == result

ListExtend(old, result) == old \o result

\* batch_size that BatchedMetric.__call__ receives from the class's own __call__:
\* BatchedPerturbationMetric.__call__ does not forward its batch_size parameter
SuperCallBatchSize(c, b) ==
    IF c = "BatchedPerturbationMetric" THEN DefaultBatchSize ELSE b

BatchSizes == (-1)..MaxBatch

\* frame of a generator whose body has not started to run
NoGen == [started |-> FALSE, n_instances |-> 0, single |-> {}, batched |-> {},
          n_batches |-> 0, batch_idx |-> 0]

HistoryContents == [i \in 1..Len(all_results) |-> heap[all_results[i]]]

\* ------------------------------------------------- constructor arguments
\* A keyword name is the sequence of its pieces; "_batch" is always a piece of
\* its own and no other piece contains it, so that the pieces of a name
\* determine the name and the occurrences of "_batch" in it.
\* re.sub('_batch', '', key): every occurrence of "_batch" is removed
ReSubBatch(key) == SelectSeq(key, LAMBDA piece : piece # "_batch")

\* name of a dataset key as pieces
KeyName(key) ==
    CASE key = "model" -> <<"model">>
      [] key = "x_batch" -> <<"x", "_batch">>
      [] key = "y_batch" -> <<"y", "_batch">>
      [] key = "s_batch" -> <<"s", "_batch">>

PerturbFunc == <<"perturb", "_func">>
PerturbFuncKwargs == <<"perturb", "_func", "_kwargs">>

Threshold == <<"threshold">>

\* inspect.getfullargspec(self.evaluate_batch).args: the bound first
\* parameter is part of it; the concrete override declares threshold beside
\* the parameters of the abstract method
EvaluateKwargNames(c) ==
    { <<"self">>, <<"model">>, <<"x", "_batch">>, <<"y", "_batch">>,
      <<"a", "_batch">>, <<"s", "_batch">>, Threshold }
    \cup (IF c = "BatchedPerturbationMetric" THEN {PerturbFunc, PerturbFuncKwargs} ELSE {})

\* extra keyword arguments a caller may give to the constructor
CandidateKwargs ==
    { Threshold,                            \* threshold
      <<"perturb", "_batch", "_func">>,     \* perturb_batch_func
      <<"model", "_batch">>,                \* model_batch
      <<"x", "_batch">>,                    \* x_batch
      <<"nr_samples">> }                    \* nr_samples
KwargSets == {ks \in SUBSET CandidateKwargs : Cardinality(ks) <= MaxKwargs}
\* the value given for a keyword argument
KwargValue(key) == 10 + Len(key)

\* **kwargs of BatchedMetric.__init__: BatchedPerturbationMetric.__init__ adds
\* perturb_func and perturb_func_kwargs to what its caller gave
InitKwargs(c, extra) ==
    IF c = "BatchedPerturbationMetric" THEN extra \cup {PerturbFunc, PerturbFuncKwargs}
    ELSE extra

\* the keys the constructor moves from kwargs to custom_evaluate_kwargs
CapturedKeys(kwargs, evaluate_kwarg_names) ==
    {key \in kwargs : key \in evaluate_kwarg_names
                        \/ ReSubBatch(key) \in evaluate_kwarg_names}

\* BatchedMetric.__init__
Construct(extra) ==
    LET kwargs == InitKwargs(cls, extra)
        captured == CapturedKeys(kwargs, EvaluateKwargNames(cls))
    IN  /\ ctor_kwargs = kwargs
        /\ custom_evaluate_kwargs = [key \in captured |-> KwargValue(key)]
        /\ general_kwargs = kwargs \ captured

\* evaluate_batch(**data_batch, **self.custom_evaluate_kwargs): the keyword
\* arguments handed over beside the batch
PassedKwargsNone(custom) == [key \in {} |-> 0]

PassedKwargs(custom) == custom

\* a keyword given twice, or one evaluate_batch does not declare, is a TypeError
CallIsWellFormed(c, batch, kw) ==
    /\ DOMAIN kw \cap {KeyName(key) : key \in DOMAIN batch} = {}
    /\ DOMAIN kw \subseteq EvaluateKwargNames(c)

\* ------------------------------------------------------------------- Init
\* the superclass constructor creates last_results and all_results empty
MetricInit ==
    /\ heap = << <<>> >>
    /\ last_results = 1
    /\ all_results = <<>>

InitState ==
    /\ cls \in Classes
    /\ evaluator \in Evaluators
    /\ MetricInit
    /\ pc = "idle"
    /\ req_batch_size = 0
    /\ batch_size = 0
    /\ data = << >>
    /\ gen = NoGen
    /\ data_batch = << >>
    /\ error = NoError
    /\ returned = -1
    /\ calls = 0
    /\ ranges = <<>>
    /\ batches = <<>>
    /\ outputs = <<>>
    /\ eval_log = <<>>
    /\ hist_at_call = <<>>
    /\ returns = <<>>
    /\ lr_at_call = 0
    /\ events = <<>>
    /\ post_arg = << >>
    /\ kwargs_log = <<>>

\* a metric constructed with threshold=... as only extra keyword argument
Init == InitState /\ Construct({Threshold})

\* a metric constructed with any of the extra keyword arguments
InitCtor == InitState /\ \E extra \in KwargSets : Construct(extra)

\* ---------------------------------------------------------------- actions
\* __call__ is entered and general_preprocess runs (it returns d or raises)
Call(b, d, pre_ok) ==
    /\ pc = "idle"
    /\ calls < MaxCalls
    /\ calls' = calls + 1
    /\ req_batch_size' = b
    /\ batch_size' = SuperCallBatchSize(cls, b)
    /\ hist_at_call' = HistoryContents
    /\ returned' = -1
    /\ gen' = NoGen
    /\ data_batch' = << >>
    /\ ranges' = <<>>
    /\ batches' = <<>>
    /\ outputs' = <<>>
    /\ eval_log' = <<>>
    /\ lr_at_call' = last_results
    /\ events' = <<"general_preprocess">>
    /\ post_arg' = << >>
    /\ kwargs_log' = <<>>
    /\ IF pre_ok
       THEN /\ data' = d
            /\ error' = NoError
            /\ pc' = "preprocessed"
       ELSE /\ data' = << >>
            /\ error' = Raise("PreprocessError")
            /\ pc' = "raised"
    /\ UNCHANGED <<cls, evaluator, heap, last_results, all_results, returns,
                   ctor_kwargs, general_kwargs, custom_evaluate_kwargs>>

\* the generator object is created (its body does not run yet) and
\* self.last_results is bound to a new empty list
StartLoopClearInPlace ==
    /\ pc = "preprocessed"
    /\ gen' = NoGen
    /\ heap' = [heap EXCEPT ![last_results] = <<>>]
    /\ pc' = "loop"
    /\ UNCHANGED <<cls, evaluator, req_batch_size, batch_size, data, data_batch,
                   last_results, all_results, error, returned, calls, ranges, batches,
                   outputs, eval_log, hist_at_call, returns,
                   ctor_kwargs, general_kwargs, custom_evaluate_kwargs,
                   lr_at_call, events, post_arg, kwargs_log>>

StartLoopNoReset ==
    /\ pc = "preprocessed"
    /\ gen' = NoGen
    /\ pc' = "loop"
    /\ UNCHANGED <<cls, evaluator, req_batch_size, batch_size, data, data_batch,
                   heap, last_results, all_results, error, returned, calls, ranges,
                   batches, outputs, eval_log, hist_at_call, returns,
                   ctor_kwargs, general_kwargs, custom_evaluate_kwargs,
                   lr_at_call, events, post_arg, kwargs_log>>

StartLoop ==
    /\ pc = "preprocessed"
    /\ gen' = NoGen
    /\ heap' = Append(heap, <<>>)
    /\ last_results' = Len(heap) + 1
    /\ pc' = "loop"
    /\ UNCHANGED <<cls, evaluator, req_batch_size, batch_size, data, data_batch,
                   all_results, error, returned, calls, ranges, batches,
                   outputs, eval_log, hist_at_call, returns,
                   ctor_kwargs, general_kwargs, custom_evaluate_kwargs,
                   lr_at_call, events, post_arg, kwargs_log>>

\* the code of generate_batches before its loop, run by the first next();
\* the frame it leaves, or the exception it raises
GenStart ==
    LET n_instances == PyLen(data["x_batch"])
        p == Partition(data, n_instances)
    IN  IF p.error # NoError THEN [error |-> p.error, frame |-> NoGen]
        ELSE IF batch_size = 0 THEN [error |-> Raise("ZeroDivisionError"), frame |-> NoGen]
        ELSE [error |-> NoError,
              frame |-> [started |-> TRUE, n_instances |-> n_instances,
                         single |-> p.single, batched |-> p.batched,
                         n_batches |-> get_number_of_batches(n_instances, batch_size),
                         batch_idx |-> 0]]

\* one iteration of `for batch_idx in iterator` from frame g: yield or exhaustion
GenLoop(g) ==
    IF g.batch_idx < g.n_batches
    THEN LET batch_start == BatchStart(batch_size, g.batch_idx)
             batch_end == BatchEnd(batch_size, g.batch_idx, g.n_instances)
             batch == MakeBatch(data, g.single, g.batched, batch_start, batch_end)
         IN  /\ gen' = [g EXCEPT !.batch_idx = @ + 1]
             /\ data_batch' = batch
             /\ ranges' = Append(ranges, <<batch_start, batch_end>>)
             /\ batches' = Append(batches, batch)
             /\ events' = Append(events, "yield")
             /\ pc' = "batch"
    ELSE /\ gen' = g
         /\ pc' = "exhausted"
         /\ UNCHANGED <<data_batch, ranges, batches, events>>

\* the for statement asks the generator for its next batch
GenNextRunsAhead ==
    /\ pc \in {"loop", "batch"}
    /\ IF gen.started
       THEN GenLoop(gen) /\ UNCHANGED error
       ELSE LET s == GenStart
            IN  IF s.error # NoError
                THEN /\ error' = s.error
                     /\ pc' = "raised"
                     /\ UNCHANGED <<gen, data_batch, ranges, batches, events>>
                ELSE GenLoop(s.frame) /\ UNCHANGED error
    /\ UNCHANGED <<cls, evaluator, req_batch_size, batch_size, data, heap,
                   last_results, all_results, returned, calls, outputs, eval_log,
                   hist_at_call, returns,
                   ctor_kwargs, general_kwargs, custom_evaluate_kwargs,
                   lr_at_call, post_arg, kwargs_log>>


GenNext ==
    /\ pc = "loop"
    /\ IF gen.started
       THEN GenLoop(gen) /\ UNCHANGED error
       ELSE LET s == GenStart
            IN  IF s.error # NoError
                THEN /\ error' = s.error
                     /\ pc' = "raised"
                     /\ UNCHANGED <<gen, data_batch, ranges, batches, events>>
                ELSE GenLoop(s.frame) /\ UNCHANGED error
    /\ UNCHANGED <<cls, evaluator, req_batch_size, batch_size, data, heap,
                   last_results, all_results, returned, calls, outputs, eval_log,
                   hist_at_call, returns,
                   ctor_kwargs, general_kwargs, custom_evaluate_kwargs,
                   lr_at_call, post_arg, kwargs_log>>

\* evaluate_batch runs on the yielded batch; its scores extend last_results
EvaluateBatch(ev_ok) ==
    /\ pc = "batch"
    /\ LET kw == PassedKwargs(custom_evaluate_kwargs)
       IN  /\ kwargs_log' = Append(kwargs_log, kw)
           /\ IF ~CallIsWellFormed(cls, data_batch, kw)
              THEN /\ error' = Raise("TypeError")
                   /\ pc' = "raised"
                   /\ UNCHANGED <<heap, outputs, eval_log, events>>
              ELSE /\ eval_log' = Append(eval_log, gen.batch_idx - 1)
                   /\ events' = Append(events, "evaluate_batch")
                   /\ IF ev_ok
                      THEN LET result == EvaluateBatchResult(evaluator, data_batch)
                           IN  /\ heap' = [heap EXCEPT ![last_results] = ListExtend(@, result)]
                               /\ outputs' = Append(outputs, result)
                               /\ pc' = "loop"
                               /\ UNCHANGED error
                      ELSE /\ error' = Raise("EvaluatorError")
                           /\ pc' = "raised"
                           /\ UNCHANGED <<heap, outputs>>
    /\ UNCHANGED <<cls, evaluator, req_batch_size, batch_size, data, gen, data_batch,
                   last_results, all_results, returned, calls, ranges, batches,
                   hist_at_call, returns,
                   ctor_kwargs, general_kwargs, custom_evaluate_kwargs,
                   lr_at_call, post_arg>>

\* custom_postprocess runs; then the result list is appended to all_results
\* and returned
PostprocessAppendFirst(post_ok) ==
    /\ pc = "exhausted"
    /\ all_results' = Append(all_results, last_results)
    /\ post_arg' = data
    /\ IF post_ok
       THEN /\ events' = events \o <<"append", "custom_postprocess">>
            /\ returned' = last_results
            /\ returns' = Append(returns, heap[last_results])
            /\ pc' = "done"
            /\ UNCHANGED error
       ELSE /\ events' = events \o <<"append", "custom_postprocess">>
            /\ error' = Raise("PostprocessError")
            /\ pc' = "raised"
            /\ UNCHANGED <<returned, returns>>
    /\ UNCHANGED <<cls, evaluator, req_batch_size, batch_size, data, gen, data_batch,
                   heap, last_results, calls, ranges, batches, outputs, eval_log,
                   hist_at_call, ctor_kwargs, general_kwargs, custom_evaluate_kwargs,
                   lr_at_call, kwargs_log>>

PostprocessLastBatch(post_ok) ==
    /\ pc = "exhausted"
    /\ post_arg' = data_batch
    /\ IF post_ok
       THEN /\ events' = events \o <<"custom_postprocess", "append">>
            /\ all_results' = Append(all_results, last_results)
            /\ returned' = last_results
            /\ returns' = Append(returns, heap[last_results])
            /\ pc' = "done"
            /\ UNCHANGED error
       ELSE /\ events' = Append(events, "custom_postprocess")
            /\ error' = Raise("PostprocessError")
            /\ pc' = "raised"
            /\ UNCHANGED <<all_results, returned, returns>>
    /\ UNCHANGED <<cls, evaluator, req_batch_size, batch_size, data, gen, data_batch,
                   heap, last_results, calls, ranges, batches, outputs, eval_log,
                   hist_at_call, ctor_kwargs, general_kwargs, custom_evaluate_kwargs,
                   lr_at_call, kwargs_log>>

Postprocess(post_ok) ==
    /\ pc = "exhausted"
    /\ post_arg' = data
    /\ IF post_ok
       THEN /\ events' = events \o <<"custom_postprocess", "append">>
            /\ all_results' = Append(all_results, last_results)
            /\ returned' = last_results
            /\ returns' = Append(returns, heap[last_results])
            /\ pc' = "done"
            /\ UNCHANGED error
       ELSE /\ events' = Append(events, "custom_postprocess")
            /\ error' = Raise("PostprocessError")
            /\ pc' = "raised"
            /\ UNCHANGED <<all_results, returned, returns>>
    /\ UNCHANGED <<cls, evaluator, req_batch_size, batch_size, data, gen, data_batch,
                   heap, last_results, calls, ranges, batches, outputs, eval_log,
                   hist_at_call, ctor_kwargs, general_kwargs, custom_evaluate_kwargs,
                   lr_at_call, kwargs_log>>

\* control is back in the caller: the frame of __call__ is gone
Return ==
    /\ pc \in {"done", "raised"}
    /\ pc' = "idle"
    /\ req_batch_size' = 0
    /\ batch_size' = 0
    /\ data' = << >>
    /\ gen' = NoGen
    /\ data_batch' = << >>
    /\ error' = NoError
    /\ returned' = -1
    /\ ranges' = <<>>
    /\ batches' = <<>>
    /\ outputs' = <<>>
    /\ eval_log' = <<>>
    /\ hist_at_call' = <<>>
    /\ lr_at_call' = 0
    /\ events' = <<>>
    /\ post_arg' = << >>
    /\ kwargs_log' = <<>>
    /\ UNCHANGED <<cls, evaluator, heap, last_results, all_results, calls, returns,
                   ctor_kwargs, general_kwargs, custom_evaluate_kwargs>>

Next ==
    \/ \E b \in BatchSizes, d \in Datasets, pre_ok \in BOOLEAN : Call(b, d, pre_ok)
    \/ StartLoop
    \/ GenNext
    \/ \E ev_ok \in BOOLEAN : EvaluateBatch(ev_ok)
    \/ \E post_ok \in BOOLEAN : Postprocess(post_ok)
    \/ Return

Spec == Init /\ [][Next]_vars

\* the same calls on a metric constructed with extra keyword arguments
SpecCtor == InitCtor /\ [][Next]_vars

\* ------------------------------------------------------------- properties
\* a dataset is in hand: general_preprocess has returned in the current call
DataPresent == pc # "idle" /\ error.type # "PreprocessError"
InstanceCount == PyLen(data["x_batch"])
\* the generator ran to its end in the current call
Exhausted == pc \in {"exhausted", "done"} \/ (pc = "raised" /\ error.type = "PostprocessError")
\* keys whose value is a sequence (not a string) of a length other than the instance count
Mismatching == {key \in Keys : data[key].kind = "seq" /\ PyLen(data[key]) # InstanceCount}
RangeSize(r) == r[2] - r[1]
RECURSIVE SumSizes(_)
SumSizes(rs) == IF rs = <<>> THEN 0 ELSE RangeSize(Head(rs)) + SumSizes(Tail(rs))
\* the ranges generate_batches computes for n_instances and b, as a list
RangesOf(n_instances, b) ==
    [i \in 1..get_number_of_batches(n_instances, b) |->
        <<BatchStart(b, i - 1), BatchEnd(b, i - 1, n_instances)>>]

\* C1: a call that returns, made with a positive batch size, has invoked
\* evaluate_batch exactly once per yielded batch, in increasing batch index
\* order; the returned list is the concatenation of the evaluator's outputs in
\* that order; with an evaluator that scores every instance the result has one
\* score per instance, the i-th being the score of instance i.
C1_ResultIsConcatenation ==
    (pc = "done" /\ batch_size > 0) =>
        /\ Len(batches) = gen.n_batches
        /\ eval_log = [i \in 1..Len(batches) |-> i - 1]
        /\ Len(outputs) = Len(batches)
        /\ heap[returned] = Concat(outputs)
        /\ (evaluator = "per_instance" =>
               /\ Len(heap[returned]) = InstanceCount
               /\ \A i \in 1..InstanceCount :
                      heap[returned][i] = Score(data["x_batch"].val[i]))

C1_Witness ==
    /\ pc = "done"
    /\ evaluator = "per_instance"
    /\ batch_size = 2
    /\ eval_log = <<0, 1>>
    /\ heap[returned] = <<Score(1), Score(2), Score(3)>>

\* C2: all_results holds exactly one entry per successful call, in call order,
\* and every entry still has the content its call returned, whatever later
\* calls (successful or failed) have done since; the entry of the call that
\* just returned is the very list it returned.
C2_HistoryKeepsReturnedResults ==
    /\ HistoryContents = returns
    /\ (pc = "done" => /\ all_results # <<>>
                       /\ all_results[Len(all_results)] = returned)

C2_Witness ==
    /\ calls = 2
    /\ Len(all_results) = 1
    /\ Len(heap[all_results[1]]) = 3
    /\ pc = "batch"
    /\ heap[last_results] # <<>>

\* C3: a call that ends with an exception (from general_preprocess, from the
\* length validation, from evaluate_batch on any batch, from
\* custom_postprocess) returns nothing, hands the exception to the caller,
\* and leaves all_results with the entries and contents it had when the call
\* started.
C3_FailureLeavesHistory ==
    pc = "raised" =>
        /\ error # NoError
        /\ returned = -1
        /\ HistoryContents = hist_at_call
        /\ HistoryContents = returns

C3_Witness ==
    /\ pc = "raised"
    /\ error.type = "EvaluatorError"
    /\ Len(eval_log) = 2
    /\ Len(all_results) = 1
    /\ heap[last_results] # <<>>

C3_WitnessPostprocess ==
    /\ pc = "raised"
    /\ error.type = "PostprocessError"
    /\ Len(all_results) = 1

\* C4: with a positive batch size the ranges of the yielded batches start at
\* 0, each starts where the previous one ended, none is empty, no end exceeds
\* the instance count; once the generator is exhausted their union is
\* [0, n_instances) and their sizes add up to n_instances.  For 10 instances
\* and batch size 3 the ranges are (0,3),(3,6),(6,9),(9,10).
C4_RangesTileInstances ==
    /\ RangesOf(10, 3) = << <<0, 3>>, <<3, 6>>, <<6, 9>>, <<9, 10>> >>
    /\ (DataPresent /\ batch_size > 0) =>
        /\ \A i \in 1..Len(ranges) :
              /\ ranges[i][1] = (IF i = 1 THEN 0 ELSE ranges[i - 1][2])
              /\ ranges[i][1] < ranges[i][2]
              /\ ranges[i][2] <= InstanceCount
              /\ ranges[i] = <<batch_size * (i - 1), Min(batch_size * i, InstanceCount)>>
        /\ (Exhausted =>
              /\ UNION {ranges[i][1]..(ranges[i][2] - 1) : i \in 1..Len(ranges)}
                     = 0..(InstanceCount - 1)
              /\ SumSizes(ranges) = InstanceCount)

C4_Witness ==
    /\ pc = "exhausted"
    /\ ranges = << <<0, 2>>, <<2, 3>> >>

\* C5: for a positive batch size the batch count is the least k with
\* k * batch_size >= n_instances, i.e. ceil(n_instances / batch_size); for 0
\* instances it is 0 and the generator yields no batch.
C5_BatchCountIsCeiling ==
    (gen.started /\ batch_size > 0) =>
        /\ gen.n_batches >= 0
        /\ gen.n_batches * batch_size >= gen.n_instances
        /\ (gen.n_batches - 1) * batch_size < gen.n_instances
        /\ (Exhausted => Len(batches) = gen.n_batches)
        /\ (gen.n_instances = 0 => gen.n_batches = 0 /\ batches = <<>> /\ pc # "batch")

C5_Witness ==
    /\ gen.started
    /\ gen.n_instances = 3
    /\ batch_size = 2
    /\ gen.n_batches = 2
    /\ pc = "exhausted"

C5_WitnessEmpty ==
    /\ gen.started
    /\ gen.n_instances = 0
    /\ batch_size > 0
    /\ pc = "done"
    /\ batches = <<>>

\* C6: with a positive batch size and a dataset that passed validation, every
\* yielded batch has the key set of the dataset, carries every single-value
\* entry unchanged and every batched entry as its contiguous slice for the
\* batch's range; once the generator is exhausted, the slices of each batched
\* entry, concatenated in batch order, are the original entry.
C6_BatchesSliceDataset ==
    (gen.started /\ batch_size > 0) =>
        /\ \A k \in 1..Len(batches) :
              /\ DOMAIN batches[k] = DOMAIN data
              /\ \A key \in gen.single : batches[k][key] = data[key]
              /\ \A key \in gen.batched :
                    /\ batches[k][key].kind = data[key].kind
                    /\ batches[k][key].val =
                           SubSeq(data[key].val, ranges[k][1] + 1, ranges[k][2])
        /\ (Exhausted =>
              \A key \in gen.batched :
                  Concat([k \in 1..Len(batches) |-> batches[k][key].val]) = data[key].val)

C6_Witness ==
    /\ pc = "exhausted"
    /\ batch_size = 2
    /\ Len(batches) = 2
    /\ gen.batched = {"x_batch", "y_batch"}
    /\ batches[2]["x_batch"].val = <<3>>
    /\ batches[2]["y_batch"].val = <<13>>
    /\ gen.single = {"model", "s_batch"}
    /\ batches[2]["s_batch"] = data["s_batch"]

\* C7: when partitioning succeeds every key is in exactly one of single and
\* batched; a value that is not sequence-like, or is a string, is in single; a
\* sequence whose length is the length of x_batch is in batched.
C7_PartitionIsExact ==
    gen.started =>
        /\ gen.n_instances = InstanceCount
        /\ gen.single \cup gen.batched = Keys
        /\ gen.single \cap gen.batched = {}
        /\ \A key \in Keys :
              /\ data[key].kind \in {"scalar", "str"} => key \in gen.single
              /\ (data[key].kind = "seq" /\ PyLen(data[key]) = InstanceCount)
                     => key \in gen.batched

C7_Witness ==
    /\ gen.started
    /\ data["y_batch"].kind = "str"
    /\ PyLen(data["y_batch"]) = InstanceCount
    /\ gen.single = {"model", "y_batch"}
    /\ gen.batched = {"x_batch", "s_batch"}

\* C8: a call whose dataset holds a sequence (not a string) of a length other
\* than the instance count never starts the batch loop: evaluate_batch is
\* never invoked, nothing is returned, and the exception with which the
\* generator fails is the ValueError naming such a key, the instance count
\* as expected length and the key's length as actual length.
C8_LengthMismatchRaises ==
    (DataPresent /\ Mismatching # {}) =>
        /\ pc \in {"preprocessed", "loop", "raised"}
        /\ ~gen.started
        /\ batches = <<>>
        /\ eval_log = <<>>
        /\ returned = -1
        /\ (pc = "raised" =>
              /\ error.type = "ValueError"
              /\ error.key \in Mismatching
              /\ error.expected = InstanceCount
              /\ error.is = PyLen(data[error.key]))

C8_Witness ==
    /\ pc = "raised"
    /\ error = LengthError("s_batch", 3, 2)
    /\ data["y_batch"].kind = "str"
    /\ batch_size = 0

\* C9 as stated: a sequence whose length differs from the instance count is
\* not rejected but classified as Single and broadcast to every batch.
C9_WrongLengthIsSingle ==
    (DataPresent /\ Mismatching # {}) =>
        /\ error.type # "ValueError"
        /\ (pc \in {"batch", "exhausted", "done"} => Mismatching \subseteq gen.single)

\* C9 amended: a sequence whose length differs from the instance count is
\* never classified as Single and never broadcast: single holds only values
\* that are not sequences (or are strings), and no batch is ever yielded from
\* a dataset that holds such a sequence.
C9_WrongLengthNeverSingle ==
    DataPresent =>
        /\ Mismatching \cap gen.single = {}
        /\ \A key \in gen.single : data[key].kind \in {"scalar", "str"}
        /\ \A k \in 1..Len(batches) : \A key \in Mismatching : key \notin DOMAIN batches[k]

C9_Witness ==
    /\ pc = "raised"
    /\ error = LengthError("y_batch", 2, 3)
    /\ "y_batch" \in Mismatching
    /\ "s_batch" \notin Mismatching
    /\ gen.single = {}

\* C10: a call made with batch_size = b > 0 whose generator ran to its end
\* has invoked evaluate_batch ceil(n_instances / b) times, and every batch
\* but the last holds exactly b instances -- for either class.
C10_RequestedBatchSizeIsUsed ==
    (Exhausted /\ req_batch_size > 0) =>
        /\ Len(eval_log) * req_batch_size >= InstanceCount
        /\ (Len(eval_log) - 1) * req_batch_size < InstanceCount
        /\ \A i \in 1..(Len(ranges) - 1) : RangeSize(ranges[i]) = req_batch_size

\* the same statement for instances of BatchedMetric itself
C10_BatchedMetricUsesRequested ==
    cls = "BatchedMetric" => C10_RequestedBatchSizeIsUsed

\* the name without a trailing "_batch" (only a trailing one)
StripTrailingBatch(key) ==
    IF key # <<>> /\ key[Len(key)] = "_batch" THEN SubSeq(key, 1, Len(key) - 1) ELSE key

\* C11: a constructor keyword argument is moved to custom_evaluate_kwargs if
\* and only if its name is a parameter of evaluate_batch, or is one once a
\* trailing "_batch" (and only a trailing one) is stripped; every other
\* keyword argument goes to the superclass constructor.
C11_CapturedIffNameOrTrailingBatch ==
    /\ \A key \in ctor_kwargs :
          key \in DOMAIN custom_evaluate_kwargs
              <=> \/ key \in EvaluateKwargNames(cls)
                  \/ StripTrailingBatch(key) \in EvaluateKwargNames(cls)
    /\ general_kwargs = ctor_kwargs \ DOMAIN custom_evaluate_kwargs
    /\ DOMAIN custom_evaluate_kwargs \subseteq ctor_kwargs

\* what the constructor does for the names in which "_batch" occurs only at
\* the end
C11_HoldsForTrailingBatchNames ==
    (\A key \in ctor_kwargs : ReSubBatch(key) = StripTrailingBatch(key))
        => C11_CapturedIffNameOrTrailingBatch

\* C12 as stated: after a call that ended with an exception, last_results
\* holds no score of that call.
C12_AbortLeavesLastResultsUnset ==
    pc = "raised" => (last_results = lr_at_call \/ heap[last_results] = <<>>)

\* C12 amended: after a call that ended with an exception, last_results is
\* not cleared.  If general_preprocess raised it is still the list it was
\* before the call; otherwise it is the list created by this call, which is
\* in neither all_results nor returned, and it holds the scores of the batches
\* evaluated before the failure, in batch order.
C12_AbortLeavesPartialResults ==
    pc = "raised" =>
        IF error.type = "PreprocessError"
        THEN last_results = lr_at_call
        ELSE /\ last_results # lr_at_call
             /\ \A i \in 1..Len(all_results) : all_results[i] # last_results
             /\ returned = -1
             /\ heap[last_results] = Concat(outputs)

C12_Witness ==
    /\ pc = "raised"
    /\ error.type = "EvaluatorError"
    /\ calls = 2
    /\ Len(all_results) = 1
    /\ eval_log = <<0, 1>>
    /\ heap[last_results] = <<Score(1), Score(2)>>

\* the events of a call that yields k batches and returns
RECURSIVE YieldEvaluate(_)
YieldEvaluate(k) ==
    IF k = 0 THEN <<>> ELSE YieldEvaluate(k - 1) \o <<"yield", "evaluate_batch">>

\* C13: in a call that returns, general_preprocess ran once and before any
\* batch was yielded, every evaluate_batch invocation came before
\* custom_postprocess, custom_postprocess ran once and received the dataset
\* general_preprocess returned (not the last batch), and the append to
\* all_results came after custom_postprocess.
C13_OrderOfSteps ==
    /\ (pc = "done" =>
          /\ events = <<"general_preprocess">> \o YieldEvaluate(Len(batches))
                          \o <<"custom_postprocess", "append">>
          /\ DOMAIN post_arg = DOMAIN data
          /\ post_arg = data)
    /\ (events # <<>> =>
          /\ events[1] = "general_preprocess"
          /\ \A i \in 2..Len(events) : events[i] # "general_preprocess")
    /\ \A i \in 1..Len(events) :
          events[i] = "custom_postprocess" =>
              /\ \A j \in 1..Len(events) :
                    events[j] \in {"yield", "evaluate_batch"} => j < i
              /\ Len(outputs) = Len(batches)
    /\ \A i \in 1..Len(events) :
          events[i] = "append" => (i = Len(events) /\ events[i - 1] = "custom_postprocess")

C13_Witness ==
    /\ pc = "done"
    /\ events = <<"general_preprocess", "yield", "evaluate_batch", "yield",
                  "evaluate_batch", "custom_postprocess", "append">>
    /\ data_batch["x_batch"].val = <<3>>
    /\ post_arg["x_batch"].val = <<1, 2, 3>>

\* C14: custom_evaluate_kwargs always is what the constructor resolved from
\* its keyword arguments, with the values given then, whatever calls have
\* been made; every evaluate_batch invocation of every call received exactly
\* these keyword arguments.
C14_EvaluatorKwargsFixed ==
    /\ DOMAIN custom_evaluate_kwargs = ctor_kwargs \ general_kwargs
    /\ \A key \in DOMAIN custom_evaluate_kwargs :
          custom_evaluate_kwargs[key] = KwargValue(key)
    /\ Len(kwargs_log) = Len(eval_log)
    /\ \A i \in 1..Len(kwargs_log) :
          /\ DOMAIN kwargs_log[i] = DOMAIN custom_evaluate_kwargs
          /\ \A key \in DOMAIN kwargs_log[i] : kwargs_log[i][key] = KwargValue(key)

C14_Witness ==
    /\ cls = "BatchedMetric"
    /\ calls = 2
    /\ Len(all_results) = 1
    /\ Len(kwargs_log) = 2
    /\ DOMAIN kwargs_log[2] = {Threshold}
    /\ kwargs_log[2][Threshold] = KwargValue(Threshold)

C14_WitnessPerturbation ==
    /\ cls = "BatchedPerturbationMetric"
    /\ calls = 2
    /\ Len(kwargs_log) = 1
    /\ DOMAIN kwargs_log[1] = {Threshold, PerturbFunc, PerturbFuncKwargs}

\* C15: batches are produced and consumed in strict alternation.  A batch has
\* been yielded and not yet evaluated only while evaluate_batch is due or has
\* just failed on it; whenever the generator is asked for a batch, every batch
\* yielded so far has been evaluated and its scores are in last_results; and
\* when evaluate_batch fails on a batch, that batch is the last one yielded
\* and the last one evaluated.
C15_ProduceConsumeAlternate ==
    /\ Len(batches) - Len(outputs) \in {0, 1}
    /\ Len(batches) = Len(outputs) + 1
          <=> \/ pc = "batch"
              \/ (pc = "raised" /\ error.type \in {"EvaluatorError", "TypeError"})
    /\ (pc \in {"loop", "batch", "exhausted"} =>
          /\ heap[last_results] = Concat(outputs)
          /\ eval_log = [i \in 1..Len(outputs) |-> i - 1])
    /\ (pc = "batch" => /\ data_batch = batches[Len(batches)]
                        /\ gen.batch_idx = Len(batches))
    /\ ((pc = "raised" /\ error.type = "EvaluatorError") =>
          /\ eval_log = [i \in 1..Len(batches) |-> i - 1]
          /\ gen.batch_idx = Len(batches))

C15_Witness ==
    /\ pc = "raised"
    /\ error.type = "EvaluatorError"
    /\ gen.n_batches = 3
    /\ Len(batches) = 2
    /\ eval_log = <<0, 1>>
    /\ Len(outputs) = 1

\* once a call has failed, the only step left to it is the return to the caller
C15_NothingAfterFailure ==
    [][pc = "raised" => (pc' = "idle" /\ heap' = heap /\ all_results' = all_results)]_vars

\* C16: every keyword argument the constructor captured is a parameter name
\* of evaluate_batch and not a key of the batch mapping, so that no
\* evaluate_batch invocation is given an unknown or a duplicated keyword.
C16_CapturedKwargsFitEvaluator ==
    /\ error.type # "TypeError"
    /\ (pc = "batch" =>
          /\ DOMAIN custom_evaluate_kwargs \subseteq EvaluateKwargNames(cls)
          /\ \A key \in DOMAIN data_batch : KeyName(key) \notin DOMAIN custom_evaluate_kwargs)

\* the invocation is well-formed when every captured name is a parameter that
\* is not a dataset key
C16_HoldsForOwnParameters ==
    (DOMAIN custom_evaluate_kwargs \subseteq {Threshold, PerturbFunc, PerturbFuncKwargs})
        => C16_CapturedKwargsFitEvaluator

\* C17: a call with batch_size <= 0 on a dataset of at least one instance
\* never returns a result and never adds an entry to all_results.
C17_NonPositiveBatchSizeFails ==
    (DataPresent /\ req_batch_size <= 0 /\ InstanceCount > 0) =>
        /\ pc # "done"
        /\ returned = -1
        /\ HistoryContents = hist_at_call

\* what the code does with batch_size = 0 (BatchedMetric itself): the division
\* in get_number_of_batches fails
C17_HoldsForZero ==
    (cls = "BatchedMetric" /\ req_batch_size = 0) => C17_NonPositiveBatchSizeFails
====
